---- MODULE Spec2Model ----
(***************************************************************************)
(* Calibrated absolute pose estimation (theia/sfm/estimators/              *)
(* estimate_calibrated_absolute_pose.cc): the three-point model estimator  *)
(* (EstimateModel, Error), the reusable wrapper around a sample-consensus  *)
(* engine, and the one-shot function.                                      *)
(*                                                                         *)
(* Numbers: world points, positions, translations and rotation entries are *)
(* integers (rotations are signed permutation matrices, which are exactly  *)
(* orthonormal with determinant +1). A double is modelled as an exact      *)
(* rational, +-infinity or NaN, so a division by zero has the IEEE outcome *)
(* and rounding is abstracted away.                                        *)
(***************************************************************************)
EXTENDS Integers, Sequences, FiniteSets, TLC

VARIABLES pc, args, call, estimator, reusable, live

vars == <<pc, args, call, estimator, reusable, live>>

----------------------------------------------------------------------------
(* Eigen: Vector3d / Matrix3d on integer entries. *)

Dot(a, b) == a[1] * b[1] + a[2] * b[2] + a[3] * b[3]

VecSub(a, b) == <<a[1] - b[1], a[2] - b[2], a[3] - b[3]>>

VecNeg(a) == <<0 - a[1], 0 - a[2], 0 - a[3]>>

MatVec(M, v) == <<Dot(M[1], v), Dot(M[2], v), Dot(M[3], v)>>

Transpose(M) ==
  << <<M[1][1], M[2][1], M[3][1]>>,
     <<M[1][2], M[2][2], M[3][2]>>,
     <<M[1][3], M[2][3], M[3][3]>> >>

----------------------------------------------------------------------------
(* double: an exact rational n/d in lowest terms with d > 0, or inf, or nan. *)

Abs(x) == IF x < 0 THEN 0 - x ELSE x

RECURSIVE GCD(_, _)
GCD(a, b) == IF b = 0 THEN a ELSE GCD(b, a % b)

Fin(n, d) ==
  LET g == GCD(Abs(n), Abs(d))
      s == IF d < 0 THEN 0 - 1 ELSE 1
  IN  [k |-> "fin", n |-> (s * n) \div g, d |-> (s * d) \div g]

Inf == [k |-> "inf", n |-> 0, d |-> 0]

NaN == [k |-> "nan", n |-> 0, d |-> 0]

OfInt(x) == Fin(x, 1)

\* a / b on doubles: x/0 is inf for x # 0 and nan for x = 0.
DDiv(a, b) ==
  IF a.k = "nan" \/ b.k = "nan" THEN NaN
  ELSE IF a.k = "inf" THEN (IF b.k = "inf" THEN NaN ELSE Inf)
  ELSE IF b.k = "inf" THEN OfInt(0)
  ELSE IF b.n = 0 THEN (IF a.n = 0 THEN NaN ELSE Inf)
  ELSE Fin(a.n * b.d, a.d * b.n)

\* a - b on doubles with b finite.
DSub(a, b) ==
  IF a.k = "nan" \/ b.k = "nan" THEN NaN
  ELSE IF a.k = "inf" \/ b.k = "inf" THEN Inf
  ELSE Fin(a.n * b.d - b.n * a.d, a.d * b.d)

DSquare(a) ==
  IF a.k = "nan" THEN NaN
  ELSE IF a.k = "inf" THEN Inf
  ELSE Fin(a.n * a.n, a.d * a.d)

\* a + b on non-negative doubles (the two squares of squaredNorm).
DAdd(a, b) ==
  IF a.k = "nan" \/ b.k = "nan" THEN NaN
  ELSE IF a.k = "inf" \/ b.k = "inf" THEN Inf
  ELSE Fin(a.n * b.d + b.n * a.d, a.d * b.d)

\* a < b on doubles: every comparison with nan is false.
DLess(a, b) ==
  IF a.k = "nan" \/ b.k = "nan" THEN FALSE
  ELSE IF a.k = "inf" THEN FALSE
  ELSE IF b.k = "inf" THEN TRUE
  ELSE a.n * b.d < b.n * a.d

\* Eigen's hnormalized() of a 3-vector: the first two entries over the third.
HNormalized(v) ==
  <<DDiv(OfInt(v[1]), OfInt(v[3])), DDiv(OfInt(v[2]), OfInt(v[3]))>>

SquaredNorm(e) == DAdd(DSquare(e[1]), DSquare(e[2]))

----------------------------------------------------------------------------
(* CalibratedAbsolutePoseEstimator *)

SampleSize == 3

\* The squared reprojection error, rotate-before-translate (a frame slip).
Error_RotateFirst(correspondence, absolute_pose) ==
  LET rotated == VecSub(MatVec(absolute_pose.rotation, correspondence.world_point),
                        absolute_pose.position)
      reprojected_feature == HNormalized(rotated)
      error == <<DSub(reprojected_feature[1], correspondence.feature[1]),
                 DSub(reprojected_feature[2], correspondence.feature[2])>>
  IN  SquaredNorm(error)

Error(correspondence, absolute_pose) ==
  LET translated == VecSub(correspondence.world_point, absolute_pose.position)
      rotated == MatVec(absolute_pose.rotation, translated)
      reprojected_feature == HNormalized(rotated)
      error == <<DSub(reprojected_feature[1], correspondence.feature[1]),
                 DSub(reprojected_feature[2], correspondence.feature[2])>>
  IN  SquaredNorm(error)

NewEstimator == [rotations |-> <<>>, translations |-> <<>>]

\* The solver is limited to 4 real solutions (a quartic).
MaxSolutions == 4

\* theia::PoseFromThreePoints. Its answer for the given features and points is
\* the input `solver`: a success flag and the (rotation, translation) pairs it
\* pushes onto the two output vectors.
PoseFromThreePoints(features, world_points, rotations, translations, solver) ==
  [ret |-> solver.ok,
   rotations |-> rotations \o
     [i \in 1..Len(solver.candidates) |-> solver.candidates[i].rotation],
   translations |-> translations \o
     [i \in 1..Len(solver.candidates) |-> solver.candidates[i].translation]]

\* correspondences[i]: past the end of the vector the read is undefined
\* behaviour; `oob` is what the build makes of it: a fault, or the value
\* oob.value that happens to lie there.
At(correspondences, i, oob) ==
  IF i <= Len(correspondences) THEN correspondences[i] ELSE oob.value

Faulted(this, absolute_poses) ==
  [fault |-> TRUE, solved |-> FALSE, ret |-> FALSE,
   absolute_poses |-> absolute_poses, this |-> this, mutable_this |-> this]

\* EstimateModel with position = -rotation * translation (transpose forgotten).
EstimateModel_NoTranspose(this, correspondences, absolute_poses, solver, oob) ==
  IF Len(correspondences) < 3 /\ oob.fault THEN Faulted(this, absolute_poses)
  ELSE
    LET features == [i \in 1..3 |-> At(correspondences, i, oob).feature]
        world_points == [i \in 1..3 |-> At(correspondences, i, oob).world_point]
        s == PoseFromThreePoints(features, world_points, <<>>, <<>>, solver)
        mutable_this == [rotations |-> s.rotations, translations |-> s.translations]
        new == [i \in 1..Len(s.rotations) |->
                  [rotation |-> s.rotations[i],
                   position |-> VecNeg(MatVec(s.rotations[i], s.translations[i]))]]
    IN  IF ~s.ret
        THEN [fault |-> FALSE, solved |-> TRUE, ret |-> FALSE,
              absolute_poses |-> absolute_poses, this |-> this,
              mutable_this |-> mutable_this]
        ELSE [fault |-> FALSE, solved |-> TRUE,
              ret |-> Len(absolute_poses \o new) > 0,
              absolute_poses |-> absolute_poses \o new, this |-> this,
              mutable_this |-> mutable_this]

\* EstimateModel that builds poses although the solver reported failure.
EstimateModel_IgnoreFailure(this, correspondences, absolute_poses, solver, oob) ==
  IF Len(correspondences) < 3 /\ oob.fault THEN Faulted(this, absolute_poses)
  ELSE
    LET features == [i \in 1..3 |-> At(correspondences, i, oob).feature]
        world_points == [i \in 1..3 |-> At(correspondences, i, oob).world_point]
        s == PoseFromThreePoints(features, world_points, <<>>, <<>>, solver)
        mutable_this == [rotations |-> s.rotations, translations |-> s.translations]
        new == [i \in 1..Len(s.rotations) |->
                  [rotation |-> s.rotations[i],
                   position |-> VecNeg(MatVec(Transpose(s.rotations[i]),
                                              s.translations[i]))]]
    IN  [fault |-> FALSE, solved |-> TRUE,
         ret |-> Len(absolute_poses \o new) > 0,
         absolute_poses |-> absolute_poses \o new, this |-> this,
         mutable_this |-> mutable_this]

\* EstimateModel that clears the caller's output list before filling it.
EstimateModel_ClearOutput(this, correspondences, absolute_poses, solver, oob) ==
  IF Len(correspondences) < 3 /\ oob.fault THEN Faulted(this, absolute_poses)
  ELSE
    LET features == [i \in 1..3 |-> At(correspondences, i, oob).feature]
        world_points == [i \in 1..3 |-> At(correspondences, i, oob).world_point]
        s == PoseFromThreePoints(features, world_points, <<>>, <<>>, solver)
        mutable_this == [rotations |-> s.rotations, translations |-> s.translations]
        new == [i \in 1..Len(s.rotations) |->
                  [rotation |-> s.rotations[i],
                   position |-> VecNeg(MatVec(Transpose(s.rotations[i]),
                                              s.translations[i]))]]
    IN  IF ~s.ret
        THEN [fault |-> FALSE, solved |-> TRUE, ret |-> FALSE,
              absolute_poses |-> <<>>, this |-> this,
              mutable_this |-> mutable_this]
        ELSE [fault |-> FALSE, solved |-> TRUE, ret |-> Len(new) > 0,
              absolute_poses |-> new, this |-> this,
              mutable_this |-> mutable_this]

\* EstimateModel on the instance's own buffers (auto&) with the two clear()
\* calls left out: candidates of earlier calls stay in the buffers.
EstimateModel_StaleBuffers(this, correspondences, absolute_poses, solver, oob) ==
  IF Len(correspondences) < 3 /\ oob.fault THEN Faulted(this, absolute_poses)
  ELSE
    LET features == [i \in 1..3 |-> At(correspondences, i, oob).feature]
        world_points == [i \in 1..3 |-> At(correspondences, i, oob).world_point]
        s == PoseFromThreePoints(features, world_points,
                                 this.rotations, this.translations, solver)
        mutable_this == [rotations |-> s.rotations, translations |-> s.translations]
        new == [i \in 1..Len(s.rotations) |->
                  [rotation |-> s.rotations[i],
                   position |-> VecNeg(MatVec(Transpose(s.rotations[i]),
                                              s.translations[i]))]]
    IN  IF ~s.ret
        THEN [fault |-> FALSE, solved |-> TRUE, ret |-> FALSE,
              absolute_poses |-> absolute_poses, this |-> mutable_this,
              mutable_this |-> mutable_this]
        ELSE [fault |-> FALSE, solved |-> TRUE,
              ret |-> Len(absolute_poses \o new) > 0,
              absolute_poses |-> absolute_poses \o new, this |-> mutable_this,
              mutable_this |-> mutable_this]

\* CalibratedAbsolutePoseEstimator::EstimateModel(correspondences, absolute_poses)
\* on the instance `this` (its two member buffers), with the solver's answer
\* `solver` and the outcome `oob` of a read past the end of correspondences.
\* The result: fault (the read faulted), solved (the solver was invoked), ret,
\* the caller's list absolute_poses on exit, the instance's member buffers on
\* exit (this) and the buffers handed to the solver on exit (mutable_this).
\* `auto mutable_this = const_cast<...&>(*this)` declares a copy of *this, not a
\* reference: the buffers cleared, handed to the solver and read back are the
\* copy's, and the instance's own buffers are left as they were.
EstimateModel(this, correspondences, absolute_poses, solver, oob) ==
  IF Len(correspondences) < 3 /\ oob.fault THEN Faulted(this, absolute_poses)
  ELSE
    LET features == [i \in 1..3 |-> At(correspondences, i, oob).feature]
        world_points == [i \in 1..3 |-> At(correspondences, i, oob).world_point]
        copy == this
        s == PoseFromThreePoints(features, world_points, <<>>, <<>>, solver)
        mutable_this == [copy EXCEPT !.rotations = s.rotations,
                                     !.translations = s.translations]
        new == [i \in 1..Len(s.rotations) |->
                  [rotation |-> s.rotations[i],
                   position |-> VecNeg(MatVec(Transpose(s.rotations[i]),
                                              s.translations[i]))]]
    IN  IF ~s.ret
        THEN [fault |-> FALSE, solved |-> TRUE, ret |-> FALSE,
              absolute_poses |-> absolute_poses, this |-> this,
              mutable_this |-> mutable_this]
        ELSE [fault |-> FALSE, solved |-> TRUE,
              ret |-> Len(absolute_poses \o new) > 0,
              absolute_poses |-> absolute_poses \o new, this |-> this,
              mutable_this |-> mutable_this]

----------------------------------------------------------------------------
(* The sample-consensus engine (theia/solvers/sample_consensus_estimator.h,    *)
(* built by CreateAndInitializeRansacVariant): per iteration a minimal sample, *)
(* EstimateModel on it with an empty list, every returned pose scored with     *)
(* Error on all the data, the pose with the most inliers kept. The samples it  *)
(* draws and the solver's answers are the input `draws`, one entry per         *)
(* iteration.                                                                  *)

CreateAndInitializeRansacVariant(ransac_type, ransac_params) ==
  [type |-> ransac_type, params |-> ransac_params]

Inliers(data, pose, error_thresh) ==
  {j \in 1..Len(data) : DLess(Error(data[j], pose), error_thresh)}

NoBest == [pose |-> <<>>, inliers |-> {}]

RECURSIVE BestOf(_, _, _, _, _)
BestOf(poses, i, data, error_thresh, best) ==
  IF i > Len(poses) THEN best
  ELSE LET inl == Inliers(data, poses[i], error_thresh)
       IN  BestOf(poses, i + 1, data, error_thresh,
                  IF Cardinality(inl) > Cardinality(best.inliers)
                  THEN [pose |-> <<poses[i]>>, inliers |-> inl]
                  ELSE best)

\* What lies past the end of a sample is never read by the engine's calls:
\* its samples hold SampleSize correspondences.
NoOob == [fault |-> TRUE, value |-> <<>>]

\* The iterations from the i-th on, on the engine of the instance `self` and
\* the model estimator it is bound to (self.absolute_pose_estimator); after the
\* last, the instance and the three results of the call.
RECURSIVE Iterate(_, _, _, _, _)
Iterate(self, data, draws, i, best) ==
  IF i > Len(draws)
  THEN [self |-> self,
        passed |-> data,
        ret |-> best.inliers # {},
        absolute_pose |-> best.pose,
        ransac_summary |-> [inliers |-> best.inliers,
                            num_iterations |-> Len(draws)]]
  ELSE LET sample == [j \in 1..SampleSize |-> data[draws[i].sample[j]]]
           r == EstimateModel(self.absolute_pose_estimator, sample, <<>>,
                              draws[i].solver, NoOob)
       IN  Iterate([self EXCEPT !.absolute_pose_estimator = r.this],
                   data, draws, i + 1,
                   IF r.ret
                   THEN BestOf(r.absolute_poses, 1, data,
                               self.ransac.params.error_thresh, best)
                   ELSE best)

\* SampleConsensusEstimator::Estimate(data, &model, &summary) on the engine of
\* the instance `self`; engineCalls counts the calls.
SampleConsensusEstimate(self, data, draws) ==
  IF Len(data) < SampleSize
  THEN [self |-> [self EXCEPT !.engineCalls = @ + 1],
        passed |-> data,
        ret |-> FALSE,
        absolute_pose |-> <<>>,
        ransac_summary |-> [inliers |-> {}, num_iterations |-> 0]]
  ELSE Iterate([self EXCEPT !.engineCalls = @ + 1], data, draws, 1, NoBest)

----------------------------------------------------------------------------
(* ReusableCalibratedAbsolutePoseEstimatorImpl and the one-shot function.    *)
(* engineBuilt and engineCalls count, per instance, the engines built for it *)
(* and the Estimate calls made on its engine.                                *)

ReusableCalibratedAbsolutePoseEstimatorImpl(ransac_params, ransac_type) ==
  [built |-> TRUE,
   absolute_pose_estimator |-> NewEstimator,
   ransac |-> CreateAndInitializeRansacVariant(ransac_type, ransac_params),
   engineBuilt |-> 1,
   engineCalls |-> 0]

\* ReusableCalibratedAbsolutePoseEstimatorImpl::estimate: the engine's Estimate
\* on the same correspondences, its results returned as they are. The result:
\* the instance after the call (self), the data the engine was handed (passed),
\* ret, absolute_pose (empty when none was written) and ransac_summary.
estimate(self, normalized_correspondences, draws) ==
  SampleConsensusEstimate(self, normalized_correspondences, draws)

\* One-shot function that calls estimate on the temporary twice.
EstimateCalibratedAbsolutePose_Twice(ransac_params, ransac_type, normalized_correspondences, draws) ==
  estimate(estimate(ReusableCalibratedAbsolutePoseEstimatorImpl(ransac_params,
                                                                ransac_type),
                    normalized_correspondences, draws).self,
           normalized_correspondences, draws)

\* EstimateCalibratedAbsolutePose: estimate on a temporary instance built from
\* the parameters and the variant; `self` in the result is the temporary as it
\* is destroyed at the end of the call.
EstimateCalibratedAbsolutePose(ransac_params, ransac_type, normalized_correspondences, draws) ==
  estimate(ReusableCalibratedAbsolutePoseEstimatorImpl(ransac_params, ransac_type),
           normalized_correspondences, draws)

----------------------------------------------------------------------------
(* Inputs. *)

\* World coordinates range over -CoordMax..CoordMax.
CoordMax == 1

\* The longest output list handed to EstimateModel with poses already in it.
MaxEntry == 1

Coords == (0 - CoordMax)..CoordMax

Points == {<<x, y, z>> : x \in Coords, y \in Coords, z \in Coords}

Positions == Points

I3 == << <<1, 0, 0>>, <<0, 1, 0>>, <<0, 0, 1>> >>

Rz90 == << <<0, -1, 0>>, <<1, 0, 0>>, <<0, 0, 1>> >>

Ry90 == << <<0, 0, 1>>, <<0, 1, 0>>, <<-1, 0, 0>> >>

Rx180 == << <<1, 0, 0>>, <<0, -1, 0>>, <<0, 0, -1>> >>

\* Camera poses the solver's candidates are taken from.
TruthPoses ==
  { [rotation |-> I3,    position |-> <<0, 0, 0>>],
    [rotation |-> Rz90,  position |-> <<1, 0, -1>>],
    [rotation |-> Ry90,  position |-> <<-1, 1, 0>>],
    [rotation |-> Rx180, position |-> <<0, -1, 1>>] }

\* The solver's (rotation, camera-frame translation) pair of a pose: t = -R c.
CandidateOf(pose) ==
  [rotation |-> pose.rotation,
   translation |-> VecNeg(MatVec(pose.rotation, pose.position))]

Candidates == {CandidateOf(p) : p \in TruthPoses}

SeqsUpTo(S, n) == UNION {[1..k -> S] : k \in 0..n}

SolverOutcomes ==
  [ok : BOOLEAN, candidates : SeqsUpTo(Candidates, MaxSolutions)]

FeatureValues ==
  {Fin(0, 1), Fin(1, 1), Fin(-1, 1), Fin(1, 2), Fin(-1, 2), Fin(2, 1), Fin(-2, 1)}

Features == {<<u, v>> : u \in FeatureValues, v \in FeatureValues}

Correspondences == [feature : Features, world_point : Points]

Corr(u, v, X) == [feature |-> <<u, v>>, world_point |-> X]

\* The sample handed to EstimateModel: its first n correspondences.
Sample ==
  << Corr(Fin(0, 1), Fin(0, 1), <<0, 0, 1>>),
     Corr(Fin(1, 1), Fin(0, 1), <<1, 0, 1>>),
     Corr(Fin(0, 1), Fin(-1, 2), <<0, -1, 1>>) >>

\* What lies past the end of a short sample when the read does not fault.
Garbage == Corr(Fin(2, 1), Fin(-2, 1), <<1, 1, 1>>)

InBounds == [fault |-> FALSE, value |-> Garbage]

EntryPose == [rotation |-> Rz90, position |-> <<0, 1, 1>>]

ModelArgs ==
  { a \in [correspondences : {SubSeq(Sample, 1, n) : n \in 0..3},
           absolute_poses : SeqsUpTo({EntryPose}, MaxEntry),
           solver : SolverOutcomes,
           oob : [fault : BOOLEAN, value : {Garbage}]] :
      Len(a.correspondences) >= 3 => a.oob = InBounds }

NoArgs == [correspondences |-> <<>>]

NoCall == [op |-> "none"]

NoInstance == [built |-> FALSE]

----------------------------------------------------------------------------
(* The estimator driven as the engine drives it: one EstimateModel call on a *)
(* sample, one of the returned poses taken, Error of it on a correspondence. *)

InitModel ==
  /\ pc = "ready"
  /\ args \in ModelArgs
  /\ call = NoCall
  /\ estimator = NewEstimator
  /\ reusable = NoInstance
  /\ live = 0

CallEstimateModel ==
  /\ pc = "ready"
  /\ LET r == EstimateModel(estimator, args.correspondences, args.absolute_poses,
                            args.solver, args.oob)
     IN  /\ call' = [op |-> "EstimateModel", r |-> r]
         /\ estimator' = r.this
         /\ pc' = IF r.fault THEN "fault" ELSE "called"
  /\ UNCHANGED <<args, reusable, live>>

\* The engine takes pose i of the list a full sample gave; `candidate` remembers
\* the solver pair it was built from (none for a pose in the list on entry).
TakeHypothesis ==
  /\ pc = "called"
  /\ Len(args.correspondences) = SampleSize
  /\ \E i \in 1..Len(call.r.absolute_poses) :
       LET k == i - Len(args.absolute_poses)
       IN  call' = [op |-> "Hypothesis",
                    absolute_pose |-> call.r.absolute_poses[i],
                    candidate |-> IF k >= 1 /\ k <= Len(args.solver.candidates)
                                  THEN <<args.solver.candidates[k]>> ELSE <<>>]
  /\ pc' = "hypothesis"
  /\ args' = NoArgs
  /\ UNCHANGED <<estimator, reusable, live>>

CallError ==
  /\ pc = "hypothesis"
  /\ \E c \in Correspondences :
       call' = [op |-> "Error", correspondence |-> c,
                absolute_pose |-> call.absolute_pose,
                candidate |-> call.candidate,
                error |-> Error(c, call.absolute_pose)]
  /\ pc' = "scored"
  /\ UNCHANGED <<args, estimator, reusable, live>>

NextModel == CallEstimateModel \/ TakeHypothesis \/ CallError

SpecModel == InitModel /\ [][NextModel]_vars

----------------------------------------------------------------------------
(* Claims about EstimateModel and Error. *)

Entry == args.absolute_poses

Out == call.r.absolute_poses

Solved == args.solver.candidates

\* Entry j of -transpose(R) * t, written out.
MinusRtT(R, t, j) == 0 - (R[1][j] * t[1] + R[2][j] * t[2] + R[3][j] * t[3])

\* C1: on 3 correspondences, when the solver succeeds with k candidates
\* (0 <= k <= 4), EstimateModel adds exactly k poses, in solver order, the i-th
\* with rotation R_i and position -transpose(R_i) * t_i.
C1_PosesFromCandidates ==
  (pc = "called" /\ Len(args.correspondences) = 3 /\ args.solver.ok) =>
    /\ Len(Out) = Len(Entry) + Len(Solved)
    /\ \A i \in 1..Len(Solved) :
         /\ Out[Len(Entry) + i].rotation = Solved[i].rotation
         /\ \A j \in 1..3 :
              Out[Len(Entry) + i].position[j] =
                MinusRtT(Solved[i].rotation, Solved[i].translation, j)

C1_Witness ==
  /\ pc = "called" /\ Len(args.correspondences) = 3 /\ args.solver.ok
  /\ Len(Solved) = 4
  /\ Solved[1].rotation = Rz90 /\ Solved[2].rotation = Ry90
  /\ Solved[3].rotation = I3
  /\ Out[Len(Entry) + 1].position = <<1, 0, -1>>

\* The third coordinate of rotation * (world_point - position), and the other
\* two, of the scored correspondence and pose, written out.
Cam(j) ==
  LET R == call.absolute_pose.rotation
      c == call.absolute_pose.position
      X == call.correspondence.world_point
  IN  R[j][1] * (X[1] - c[1]) + R[j][2] * (X[2] - c[2]) + R[j][3] * (X[3] - c[3])

\* C2: Error returns the squared distance between the feature and the
\* perspective division of R * (X - c), the position subtracted before the
\* rotation; the value is a function of the correspondence and the pose alone,
\* whatever was called on the estimator before. With u = a/p and v = b/q the
\* feature: ((x p - a z)^2 q^2 + (y q - b z)^2 p^2) / (z p q)^2; at depth zero
\* the division's IEEE outcome (x/0 infinite for x # 0, 0/0 not a number).
C2_ErrorIsSquaredReprojection ==
  pc = "scored" =>
    LET x == Cam(1)
        y == Cam(2)
        z == Cam(3)
        u == call.correspondence.feature[1]
        v == call.correspondence.feature[2]
        e == call.error
    IN  IF z # 0
        THEN /\ e.k = "fin"
             /\ e.n * (z * u.d * v.d) * (z * u.d * v.d) =
                  e.d * ( (x * u.d - u.n * z) * (x * u.d - u.n * z) * v.d * v.d
                        + (y * v.d - v.n * z) * (y * v.d - v.n * z) * u.d * u.d )
        ELSE e = (IF x = 0 \/ y = 0 THEN NaN ELSE Inf)

C2_Witness ==
  /\ pc = "scored"
  /\ call.absolute_pose = [rotation |-> Rz90, position |-> <<1, 0, -1>>]
  /\ call.correspondence = Corr(Fin(1, 2), Fin(-1, 1), <<0, 1, 1>>)
  /\ call.error = Fin(5, 4)

\* Inlier thresholds on the squared error that configurations use.
ErrorThresholds == {Fin(1, 4), Fin(1, 1)}

\* C3 (as claimed): at non-positive depth Error returns a finite value larger
\* than every inlier threshold.
C3_NonPositiveDepthIsLargeFinite ==
  (pc = "scored" /\ Cam(3) <= 0) =>
    /\ call.error.k = "fin"
    /\ \A th \in ErrorThresholds : DLess(th, call.error)

\* C4 (as claimed): with fewer than 3 correspondences EstimateModel returns
\* false and adds nothing, without a fault and without invoking the solver.
C4_ShortSampleIsRejected ==
  (pc \in {"called", "fault"} /\ Len(args.correspondences) < 3) =>
    /\ ~call.r.fault
    /\ ~call.r.solved
    /\ ~call.r.ret
    /\ Out = Entry

\* C5: when the solver reports no solution for the 3 correspondences,
\* EstimateModel adds no pose, returns false and ends normally.
C5_SolverFailureAddsNothing ==
  (pc \in {"called", "fault"} /\ Len(args.correspondences) = 3 /\ ~args.solver.ok) =>
    /\ pc = "called"
    /\ ~call.r.fault
    /\ Out = Entry
    /\ call.r.ret = FALSE

C5_Witness ==
  /\ pc = "called" /\ Len(args.correspondences) = 3 /\ ~args.solver.ok
  /\ Len(Solved) = 2 /\ Len(Entry) = 1
  /\ call.r.ret = FALSE

\* C6: for a pose (R0, c0), a world point X at positive depth and the feature
\* its exact projection of R0 * (X - c0): the pose EstimateModel builds from the
\* solver's candidate (R0, -R0 * c0) is (R0, c0), and Error of it on (feature,
\* X) is 0.
C6_FramesAgree ==
  (pc = "scored" /\ call.candidate # <<>>) =>
    \A c0 \in Positions :
      LET R0 == call.candidate[1].rotation
          t0 == call.candidate[1].translation
          X == call.correspondence.world_point
          p == MatVec(R0, VecSub(X, c0))
          u == call.correspondence.feature[1]
          v == call.correspondence.feature[2]
      IN  ( /\ t0 = VecNeg(MatVec(R0, c0))
            /\ p[3] > 0
            /\ u.n * p[3] = p[1] * u.d
            /\ v.n * p[3] = p[2] * v.d ) =>
            /\ call.absolute_pose = [rotation |-> R0, position |-> c0]
            /\ call.error = OfInt(0)

C6_Witness ==
  /\ pc = "scored"
  /\ call.candidate = <<CandidateOf([rotation |-> Rz90, position |-> <<1, 0, -1>>])>>
  /\ call.correspondence = Corr(Fin(-1, 2), Fin(-1, 1), <<-1, 1, 1>>)
  /\ call.absolute_pose.position = <<1, 0, -1>>
  /\ call.error = OfInt(0)

\* C8 (as claimed): after an EstimateModel call the instance's own buffers hold
\* the candidates the solver produced in that call.
C8_MemberBuffersHoldCandidates ==
  (pc = "called" /\ Len(args.correspondences) = 3 /\ args.solver.ok) =>
    /\ estimator.rotations = [i \in 1..Len(Solved) |-> Solved[i].rotation]
    /\ estimator.translations = [i \in 1..Len(Solved) |-> Solved[i].translation]

\* C10: EstimateModel only appends: the poses in the list on entry stay, in
\* place, and it returns true exactly when the solver succeeded and the list is
\* non-empty on exit; so with a non-empty list and a solver that succeeds with
\* no candidate it returns true, and the return value says "this call produced
\* a pose" when the list was empty on entry.
C10_AppendOnly ==
  pc = "called" =>
    /\ Len(Out) >= Len(Entry)
    /\ SubSeq(Out, 1, Len(Entry)) = Entry
    /\ call.r.ret = (args.solver.ok /\ Len(Out) > 0)
    /\ (Entry # <<>> /\ args.solver.ok) => call.r.ret
    /\ Entry = <<>> => (call.r.ret = (Len(Out) > Len(Entry)))

C10_Witness ==
  /\ pc = "called"
  /\ Len(Entry) = 1 /\ args.solver.ok /\ Solved = <<>>
  /\ call.r.ret = TRUE /\ Out = Entry

----------------------------------------------------------------------------
(* The wrapper: build, estimate, destroy, and the one-shot function. *)

\* Estimate calls on one instance.
MaxCalls == 2

\* Exact observation of world point X by a camera at `pose` (depth not zero).
Observe(pose, X) ==
  LET h == HNormalized(MatVec(pose.rotation, VecSub(X, pose.position)))
  IN  [feature |-> h, world_point |-> X]

PoseA == [rotation |-> Rz90, position |-> <<1, 0, -1>>]

PoseB == [rotation |-> I3, position |-> <<0, 0, 0>>]

\* Three observations by PoseA and an outlier.
DataA ==
  << Observe(PoseA, <<0, 0, 1>>), Observe(PoseA, <<-1, 1, 1>>),
     Observe(PoseA, <<1, 1, 0>>), Corr(Fin(2, 1), Fin(2, 1), <<0, -1, 1>>) >>

\* Three observations by PoseB.
DataB ==
  << Observe(PoseB, <<1, 0, 1>>), Observe(PoseB, <<0, 1, 1>>),
     Observe(PoseB, <<-1, -1, 1>>) >>

\* Fewer correspondences than a minimal sample.
DataC == << Observe(PoseB, <<1, 0, 1>>), Observe(PoseB, <<0, 1, 1>>) >>

DataSets == {DataA, DataB, DataC}

RansacParameters ==
  { [error_thresh |-> Fin(1, 4), max_iterations |-> 1],
    [error_thresh |-> Fin(1, 1), max_iterations |-> 2] }

RansacTypes == {"RANSAC", "PROSAC"}

EngineSolverOutcomes ==
  { [ok |-> FALSE, candidates |-> <<>>],
    [ok |-> TRUE, candidates |-> <<>>],
    [ok |-> TRUE, candidates |-> <<CandidateOf(PoseA)>>],
    [ok |-> TRUE, candidates |-> <<CandidateOf(PoseB), CandidateOf(PoseA)>>] }

Samples(n) == {s \in {<<1, 2, 3>>, <<2, 3, 4>>} : \A j \in 1..3 : s[j] <= n}

\* The draws of one Estimate call: one per iteration, at most max_iterations.
Draws(ransac_params, data) ==
  IF Len(data) < SampleSize THEN {<<>>}
  ELSE UNION { [1..k -> [sample : Samples(Len(data)), solver : EngineSolverOutcomes]] :
               k \in 1..ransac_params.max_iterations }

----------------------------------------------------------------------------
(* A reusable instance: built, estimate called on it, destroyed. *)

Init ==
  /\ pc = "idle"
  /\ args = NoArgs
  /\ call = NoCall
  /\ estimator = NewEstimator
  /\ reusable = NoInstance
  /\ live = 0

\* ReusableCalibratedAbsolutePoseEstimator::build
Build ==
  /\ ~reusable.built
  /\ \E ransac_params \in RansacParameters, ransac_type \in RansacTypes :
       reusable' = ReusableCalibratedAbsolutePoseEstimatorImpl(ransac_params, ransac_type)
  /\ live' = live + 1
  /\ call' = [op |-> "build"]
  /\ UNCHANGED <<pc, args, estimator>>

\* estimate on the instance; `earlier` remembers the data of the call before.
Estimate ==
  /\ reusable.built
  /\ reusable.engineCalls < MaxCalls
  /\ \E data \in DataSets :
       \E draws \in Draws(reusable.ransac.params, data) :
         \E r \in {estimate(reusable, data, draws)} :
           /\ reusable' = r.self
           /\ call' = [op |-> "estimate", data |-> data, draws |-> draws,
                       earlier |-> IF call.op = "estimate" THEN <<call.data>> ELSE <<>>,
                       passed |-> r.passed, ret |-> r.ret,
                       absolute_pose |-> r.absolute_pose,
                       ransac_summary |-> r.ransac_summary]
  /\ UNCHANGED <<pc, args, estimator, live>>

\* The unique_ptr returned by build goes out of scope.
Destroy ==
  /\ reusable.built
  /\ reusable' = NoInstance
  /\ live' = live - 1
  /\ call' = [op |-> "destroy"]
  /\ UNCHANGED <<pc, args, estimator>>

Next == Build \/ Estimate \/ Destroy

Spec == Init /\ [][Next]_vars

\* C7: estimate calls on one instance are independent: what a call returns is
\* what the same call (same correspondences, same draws of the engine) returns
\* as the first call on a fresh instance of the same configuration, and the
\* model estimator of the instance holds nothing a call has written.
C7_CallsAreIndependent ==
  call.op = "estimate" =>
    LET first == estimate(ReusableCalibratedAbsolutePoseEstimatorImpl(
                            reusable.ransac.params, reusable.ransac.type),
                          call.data, call.draws)
    IN  /\ call.ret = first.ret
        /\ call.absolute_pose = first.absolute_pose
        /\ call.ransac_summary = first.ransac_summary
        /\ reusable.absolute_pose_estimator = NewEstimator

C7_Witness ==
  /\ call.op = "estimate"
  /\ reusable.engineCalls = 2
  /\ call.earlier = <<DataA>> /\ call.data = DataB
  /\ Len(call.draws) = 2
  /\ call.ret /\ call.absolute_pose = <<PoseB>>
  /\ call.ransac_summary.inliers = {1, 2, 3}

----------------------------------------------------------------------------
(* The one-shot function beside a reusable instance of the same parameters *)
(* and variant, both on the same correspondences and draws.                *)

OneShotArgs ==
  UNION { [ransac_params : {ps}, ransac_type : RansacTypes, data : {d},
           draws : Draws(ps, d)] : ps \in RansacParameters, d \in DataSets }

InitOneShot ==
  /\ pc = "ready"
  /\ args \in OneShotArgs
  /\ call = NoCall
  /\ estimator = NewEstimator
  /\ reusable = NoInstance
  /\ live = 0

CallOneShot ==
  /\ pc = "ready"
  /\ \E r \in {EstimateCalibratedAbsolutePose(args.ransac_params, args.ransac_type,
                                              args.data, args.draws)} :
       /\ call' = [op |-> "oneshot", temporary |-> r.self,
                   passed |-> r.passed, ret |-> r.ret,
                   absolute_pose |-> r.absolute_pose,
                   ransac_summary |-> r.ransac_summary]
       \* the temporary is constructed and, at the end of the call, destroyed
       /\ live' = (live + 1) - 1
  /\ pc' = "done"
  /\ UNCHANGED <<args, estimator, reusable>>

BuildSame ==
  /\ pc = "ready"
  /\ ~reusable.built
  /\ reusable' = ReusableCalibratedAbsolutePoseEstimatorImpl(args.ransac_params,
                                                             args.ransac_type)
  /\ live' = live + 1
  /\ call' = [op |-> "build"]
  /\ UNCHANGED <<pc, args, estimator>>

EstimateSame ==
  /\ pc = "ready"
  /\ reusable.built
  /\ reusable.engineCalls < MaxCalls
  /\ \E r \in {estimate(reusable, args.data, args.draws)} :
       /\ reusable' = r.self
       /\ call' = [op |-> "estimate",
                   passed |-> r.passed, ret |-> r.ret,
                   absolute_pose |-> r.absolute_pose,
                   ransac_summary |-> r.ransac_summary]
  /\ UNCHANGED <<pc, args, estimator, live>>

NextOneShot == CallOneShot \/ BuildSame \/ EstimateSame

SpecOneShot == InitOneShot /\ [][NextOneShot]_vars

\* C9: the one-shot function is one build and one estimate: it builds one
\* engine, calls its Estimate once on the correspondences it was given,
\* returns what that call returned and keeps no instance; and the engine of a
\* reusable instance is built once, however many estimate calls follow, the
\* first of which returns what the one-shot function returns.
C9_OneShotIsBuildThenEstimate ==
  /\ call.op = "oneshot" =>
       LET once == estimate(ReusableCalibratedAbsolutePoseEstimatorImpl(
                              args.ransac_params, args.ransac_type),
                            args.data, args.draws)
       IN  /\ call.temporary.engineBuilt = 1
           /\ call.temporary.engineCalls = 1
           /\ call.temporary.ransac =
                CreateAndInitializeRansacVariant(args.ransac_type, args.ransac_params)
           /\ call.passed = args.data
           /\ call.ret = once.ret
           /\ call.absolute_pose = once.absolute_pose
           /\ call.ransac_summary = once.ransac_summary
  /\ live = (IF reusable.built THEN 1 ELSE 0)
  /\ reusable.built => reusable.engineBuilt = 1
  /\ (call.op = "estimate" /\ reusable.engineCalls = 1) =>
       LET shot == EstimateCalibratedAbsolutePose(args.ransac_params, args.ransac_type,
                                                  args.data, args.draws)
       IN  /\ call.ret = shot.ret
           /\ call.absolute_pose = shot.absolute_pose
           /\ call.ransac_summary = shot.ransac_summary

C9_Witness ==
  /\ pc = "done" /\ call.op = "oneshot"
  /\ args.data = DataA /\ Len(args.draws) = 2
  /\ call.ret /\ call.absolute_pose = <<PoseA>>
  /\ call.ransac_summary.inliers = {1, 2, 3}
  /\ reusable.built /\ reusable.engineCalls = MaxCalls

====
